---------------------------- MODULE Spec2Model ----------------------------
(***************************************************************************)
(* A model of goscrape (src/scrape.go), a client of the UDP tracker scrape *)
(* protocol (BEP-0015): the Goscrape struct, connect() and Scrape(), the   *)
(* datagrams they put on the wire and the replies a tracker may give.      *)
(*                                                                         *)
(* Representation.  A byte is a number in 0..255, a packet a sequence of   *)
(* bytes.  TLC's integers are 32 bits wide and signed, so a uint32 is      *)
(* drawn below 2^31 and a uint64 is the pair <<high word, low word>>.  An  *)
(* infohash is a sequence of one-character strings.  Time is counted in    *)
(* units of 30 seconds.                                                    *)
(***************************************************************************)
EXTENDS Integers, Sequences, FiniteSets, TLC

(***************************************************************************)
(* Bounds of the model.                                                    *)
(***************************************************************************)
MaxCalls == 3
MaxCallsData == 2
MaxCallsConc == 3
MaxTime == 3
MaxRetryLimit == 1
MaxCallsLive == 2

(***************************************************************************)
(* Program constants.                                                      *)
(***************************************************************************)
actionConnect == 0
actionAnnounce == 1
actionScrap == 2
actionError == 3
pid == <<1047, 655366528>>      \* 0x41727101980 as <<0x417, 0x27101980>>
Minute == 2                     \* time.Minute, in units of 30 seconds
MaxInfohash == 74
DefaultRetries == 3
ZeroTime == 0 - (Minute + 1)    \* time.Time{}: more than a minute before any now

(***************************************************************************)
(* encoding/binary, big endian.                                            *)
(***************************************************************************)
PutUint32(v) ==
    << (v \div 16777216) % 256, (v \div 65536) % 256, (v \div 256) % 256, v % 256 >>

PutUint64(v) == PutUint32(v[1]) \o PutUint32(v[2])

\* binary.BigEndian.Uint32(b[off:]), off counted from 0 as in the source
Uint32(b, off) ==
    b[off + 1] * 16777216 + b[off + 2] * 65536 + b[off + 3] * 256 + b[off + 4]

Uint64(b, off) == << Uint32(b, off), Uint32(b, off + 4) >>

Zeros(n) == [i \in 1..n |-> 0]

Min(a, b) == IF a < b THEN a ELSE b

\* copy(dst[off:], src): min(len(dst)-off, len(src)) bytes are copied
Copy(dst, off, src) ==
    [i \in 1..Len(dst) |->
        IF i > off /\ i - off <= Len(src) THEN src[i - off] ELSE dst[i]]

(***************************************************************************)
(* encoding/hex and bytes.Join, as Scrape uses them.                       *)
(***************************************************************************)
HexDigits ==
    << "0", "1", "2", "3", "4", "5", "6", "7",
       "8", "9", "a", "b", "c", "d", "e", "f" >>

\* the characters infohashes are written with
Chars == {HexDigits[i] : i \in 1..16} \cup {"g", "z", " "}

\* hex.reverseHexTable: the value of a digit, 255 for any other character
reverseHexTable ==
    [c \in Chars |->
        IF \E i \in 1..16 : HexDigits[i] = c
        THEN (CHOOSE i \in 1..16 : HexDigits[i] = c) - 1
        ELSE 255]

fromHexChar(c) == reverseHexTable[c]

\* bytes.Join(list, []byte("")): the concatenation, halving the list
RECURSIVE Join(_)
Join(list) ==
    IF list = <<>> THEN <<>>
    ELSE IF Len(list) = 1 THEN list[1]
    ELSE LET h == Len(list) \div 2
         IN  Join(SubSeq(list, 1, h)) \o Join(SubSeq(list, h + 1, Len(list)))

DecodedLen(n) == n \div 2

\* hex.Decode(dst, src): the bytes of the pairs of src, and the error
HexDecode(src) ==
    LET pairs == Len(src) \div 2
        bad(k) == fromHexChar(src[2 * k - 1]) > 15 \/ fromHexChar(src[2 * k]) > 15
    IN  IF \E k \in 1..pairs : bad(k)
        THEN [err |-> "hex.InvalidByteError", dst |-> <<>>]
        ELSE IF Len(src) % 2 = 1
        THEN [err |-> IF fromHexChar(src[Len(src)]) > 15
                      THEN "hex.InvalidByteError" ELSE "hex.ErrLength",
              dst |-> <<>>]
        ELSE [err |-> "nil",
              dst |-> [k \in 1..pairs |->
                         fromHexChar(src[2 * k - 1]) * 16 + fromHexChar(src[2 * k])]]


(***************************************************************************)
(* The packets of the client.                                              *)
(***************************************************************************)
\* connect(): the 16-byte connect request
ConnectRequest(tid) == PutUint64(pid) \o PutUint32(actionConnect) \o PutUint32(tid)

\* Scrape(): the scrape request, dst being the hex-decoded infohashes
ScrapeRequest(connectionid, tid, N, dst) ==
    Copy(PutUint64(connectionid) \o PutUint32(actionScrap) \o PutUint32(tid)
             \o Zeros(20 * N),
         16, dst)

\* conn.Read(buf) of one datagram: what the buffer holds afterwards, and n
ReadInto(buf, dgram) ==
    [n |-> Min(Len(buf), Len(dgram)), buf |-> Copy(buf, 0, dgram)]

(***************************************************************************)
(* The tracker: the datagrams it may send in answer to a request.  It      *)
(* answers a connect request with an action of env.cacts, a scrape request *)
(* with one of env.sacts, and with any of the transaction IDs env.tids, and*)
(* fills the body as it likes: a connection ID from env.cids for a connect *)
(* request; for a scrape request of N infohashes N records (seeders,       *)
(* completed, leechers), record i being pat[1] or pat[2] by the parity of  *)
(* i with (i-1) \div 2 added to its seeders.  It may also cut a reply      *)
(* short or append to it.                                                  *)
(***************************************************************************)
Actions == {actionConnect, actionAnnounce, actionScrap, actionError}

RecordBytes(t) == PutUint32(t[1]) \o PutUint32(t[2]) \o PutUint32(t[3])

TrackerRecord(pat, i) ==
    LET t == pat[((i - 1) % 2) + 1] IN << t[1] + ((i - 1) \div 2), t[2], t[3] >>

TrackerBody(N, pat) == Join([i \in 1..N |-> RecordBytes(TrackerRecord(pat, i))])

TrackerReplies(data, env) ==
    LET act == Uint32(data, 8)
        tid == Uint32(data, 12)
        N == (Len(data) - 16) \div 20
        bodies == IF act = actionConnect
                  THEN {PutUint64(c) : c \in env.cids}
                  ELSE {TrackerBody(N, pat) : pat \in env.triples \X env.triples}
        acts == IF act = actionConnect THEN env.cacts ELSE env.sacts
        full == {PutUint32(a) \o PutUint32(t) \o b :
                    a \in acts, t \in env.tids, b \in bodies}
        good == PutUint32(act) \o PutUint32(tid) \o (CHOOSE b \in bodies : TRUE)
    IN  full \cup {SubSeq(good, 1, Len(good) - 1), good \o <<238>>}

(***************************************************************************)
(* The state.                                                              *)
(*   g      the Goscrape struct: conn (0 is nil, otherwise the number of   *)
(*          the transport), connectionID, session, retries, and mu, the    *)
(*          holder of its mutex (0: unlocked)                              *)
(*   proc   per caller, the position in Scrape/connect and their locals    *)
(*   wire   the requests written so far: the tracker may answer any of     *)
(*          them at any later time, and UDP may deliver an answer twice    *)
(*   inbox  the datagrams that have arrived at a transport and are not     *)
(*          read yet, each with the caller whose request it answers        *)
(*   now    the clock                                                      *)
(*   nconn  the number of transports dialed (none is ever closed)          *)
(*   ncalls the number of calls of Scrape made                             *)
(*   hs     what became of the latest handshake of this client ("none"     *)
(*          before the first one has ended), and the transport of the      *)
(*          latest one that succeeded (0: none has)                        *)
(***************************************************************************)
VARIABLES g, proc, wire, inbox, now, nconn, ncalls, hs

vars == << g, proc, wire, inbox, now, nconn, ncalls, hs >>

Procs == {1, 2}

NoPrev == [ok |-> FALSE, at |-> 0, conn |-> 0, connectionid |-> <<0, 0>>]

\* The locals of a caller that has not called yet, and what is recorded:
\*   called   whether the caller has called Scrape
\*   at       the time of the staleness check of its latest call
\*   writes   the write attempts of the retry loop it is in
\*   timeouts the reads of that loop that timed out
\*   stale    whether the client had no session or a stale one when the
\*            call was made
\*   prev     its previous call, kept until connect() has made its check
InitProc ==
    [pc |-> "idle", called |-> FALSE, infohash |-> <<>>,
     conn |-> 0, connectionid |-> <<0, 0>>, ctid |-> 0, tid |-> 0,
     buf |-> <<>>, retries |-> 0, writes |-> 0, timeouts |-> 0, stale |-> FALSE,
     r |-> <<>>, rnil |-> TRUE, err |-> "nil", at |-> 0, prev |-> NoPrev]

\* New(): retries is 3, everything else the zero value
Init ==
    /\ g = [conn |-> 0, connectionID |-> <<0, 0>>, session |-> ZeroTime,
            retries |-> DefaultRetries, mu |-> 0]
    /\ proc = [p \in Procs |-> InitProc]
    /\ wire = {}
    /\ inbox = {}
    /\ now = 0
    /\ nconn = 0
    /\ ncalls = 0
    /\ hs = [last |-> "none", conn |-> 0]

(***************************************************************************)
(* Goscrape.connect and Goscrape.Scrape.                                   *)
(***************************************************************************)
\* time.Since(t)
Since(t) == now - t

\* a session that lasts a second, not a minute
StaleAfterASecond(session) == Since(session) * 60 > Minute

\* a session that is stale as soon as it is installed
StaleAtOnce(session) == Since(session) >= 0

\* a session that is stale when it is exactly a minute old
StaleAtAMinute(session) == Since(session) >= Minute

\* connect(): whether a handshake is needed
Stale(session) == Since(session) > Minute

\* a check of the number of infohashes that is off by one: it refuses 74
TooManyFrom74(infohash) == Len(infohash) >= MaxInfohash

\* Scrape(): the check of the number of infohashes
TooMany(infohash) == Len(infohash) > MaxInfohash

\* giving up one attempt early
GiveUpAtLimit(retries, limit) == retries >= limit

\* the retry loops: whether to give up after a read that timed out
GiveUp(retries, limit) == retries > limit

\* the end of a call: the buffers and the loop counter die with it
Ended(rec) ==
    [rec EXCEPT !.pc = "idle", !.buf = <<>>, !.retries = 0, !.writes = 0,
                !.timeouts = 0, !.stale = FALSE, !.ctid = 0, !.tid = 0, !.prev = NoPrev]

\* return nil, err
Return(rec, err) ==
    [Ended(rec) EXCEPT !.err = err, !.r = <<>>, !.rnil = TRUE,
                       !.conn = 0, !.connectionid = <<0, 0>>, !.at = 0]

\* an unlock that also stamps the session with the time
UnlockStamped(gg) == [gg EXCEPT !.mu = 0, !.session = now]

\* a lock that is never released
UnlockNever(gg) == gg

\* connect(): the deferred g.Unlock(), which runs at each of its returns
Unlock(gg) == [gg EXCEPT !.mu = 0]

\* connect(): the checks of the reply read into buf.  The third one compares
\* the transaction ID read from the reply with itself.
CheckConnect(n, buf) ==
    IF n # Len(buf) THEN "ErrResponse"
    ELSE IF Uint32(buf, 0) # actionConnect THEN "ErrInvalidAction"
    ELSE LET tid == Uint32(buf, 4)
         IN  IF tid # tid THEN "ErrInvalidTransactionID" ELSE "nil"

\* the checks with the action looked at before the transaction ID
CheckScrapeActionFirst(tid, N, n, response) ==
    IF n < 8 + (12 * N) THEN "ErrResponse"
    ELSE IF Uint32(response, 0) = actionError THEN "ErrRemote"
    ELSE IF Uint32(response, 0) # actionScrap THEN "ErrInvalidAction"
    ELSE IF Uint32(response, 4) # tid THEN "ErrInvalidTransactionID"
    ELSE "nil"

\* the checks without the one for the tracker's error action
CheckScrapeNoRemote(tid, N, n, response) ==
    IF n < 8 + (12 * N) THEN "ErrResponse"
    ELSE IF Uint32(response, 4) # tid THEN "ErrInvalidTransactionID"
    ELSE IF Uint32(response, 0) # actionScrap THEN "ErrInvalidAction"
    ELSE "nil"

\* the checks without the one of the length
CheckScrapeAnyLength(tid, N, n, response) ==
    IF n < 8 THEN "ErrInvalidAction"
    ELSE IF Uint32(response, 4) # tid THEN "ErrInvalidTransactionID"
    ELSE IF Uint32(response, 0) = actionError THEN "ErrRemote"
    ELSE IF Uint32(response, 0) # actionScrap THEN "ErrInvalidAction"
    ELSE "nil"

\* Scrape(): the checks of the reply read into response
\* a scrape reply check that does not look at the transaction ID
CheckScrapeAnyTransaction(tid, N, n, response) ==
    IF n < 8 + (12 * N) THEN "ErrResponse"
    ELSE IF Uint32(response, 0) = actionError THEN "ErrRemote"
    ELSE IF Uint32(response, 0) # actionScrap THEN "ErrInvalidAction"
    ELSE "nil"

CheckScrape(tid, N, n, response) ==
    IF n < 8 + (12 * N) THEN "ErrResponse"
    ELSE IF Uint32(response, 4) # tid THEN "ErrInvalidTransactionID"
    ELSE IF Uint32(response, 0) = actionError THEN "ErrRemote"
    ELSE IF Uint32(response, 0) # actionScrap THEN "ErrInvalidAction"
    ELSE "nil"

\* results decoded with the completed and the leechers fields exchanged
ScrapeResultSwapped(infohash, response) ==
    [i \in 1..Len(infohash) |->
        LET offset == 8 + 12 * (i - 1)
        IN  [Infohash |-> infohash[i],
             Seeders |-> Uint32(response, offset),
             Completed |-> Uint32(response, offset + 8),
             Leechers |-> Uint32(response, offset + 4)]]

\* results whose last entry is left out
ScrapeResultPartial(infohash, response) ==
    [i \in 1..(Len(infohash) - 1) |->
        LET offset == 8 + 12 * (i - 1)
        IN  [Infohash |-> infohash[i],
             Seeders |-> Uint32(response, offset),
             Completed |-> Uint32(response, offset + 4),
             Leechers |-> Uint32(response, offset + 8)]]

\* Scrape(): the results decoded from response
ScrapeResult(infohash, response) ==
    [i \in 1..Len(infohash) |->
        LET offset == 8 + 12 * (i - 1)
        IN  [Infohash |-> infohash[i],
             Seeders |-> Uint32(response, offset),
             Completed |-> Uint32(response, offset + 4),
             Leechers |-> Uint32(response, offset + 8)]]

\* Scrape() from the return of connect() to the start of its retry loop
AfterConnect(rec, conn, connectionid, tid) ==
    LET N == Len(rec.infohash)
        d == HexDecode(Join(rec.infohash))
        got == [rec EXCEPT !.conn = conn, !.connectionid = connectionid,
                           !.prev = NoPrev]
    IN  IF d.err # "nil"
        THEN Return(got, d.err)
        ELSE [got EXCEPT !.tid = tid, !.ctid = 0,
                         !.buf = ScrapeRequest(connectionid, tid, N, d.dst),
                         !.retries = 0, !.writes = 0, !.timeouts = 0,
                         !.pc = "scrapeWrite"]

\* whether a caller in Scrape holds transport c.  A transport that g.conn
\* no longer names and no caller holds is never read again: what was
\* written on it and what waits at it is dropped from the state.
InUse(c) == \E q \in Procs : proc[q].pc \in {"scrapeWrite", "scrapeRead"} /\ proc[q].conn = c

\* whether a datagram waits at transport c
Waiting(c) == \E d \in inbox : d.conn = c

\* A call of Scrape(infohash...) by p, up to g.Lock()
Scrape(p, infohash) ==
    /\ proc[p].pc = "idle"
    /\ ncalls' = ncalls + 1
    /\ LET old == proc[p]
           rec == [InitProc EXCEPT
                      !.called = TRUE, !.infohash = infohash,
                      !.stale = Stale(g.session),
                      !.prev = [ok |-> old.called /\ old.err = "nil",
                                at |-> old.at, conn |-> old.conn,
                                connectionid |-> old.connectionid]]
       IN  proc' = [proc EXCEPT ![p] =
                       IF TooMany(infohash)
                       THEN Return(rec, "ErrTooManyInfohash")
                       ELSE [rec EXCEPT !.pc = "connect"]]
    /\ UNCHANGED << g, wire, inbox, now, nconn, hs >>

\* connect() from g.Lock() to the start of its retry loop, or to its return
\* when the session is fresh or the dial fails; tid is the handshake's
\* transaction ID, tid2 the one Scrape draws after connect() returned
connect(p, tid, tid2, dialed) ==
    /\ proc[p].pc = "connect"
    /\ g.mu = 0
    /\ LET rec == [proc[p] EXCEPT !.at = now]
       IN  IF Stale(g.session)
           THEN IF dialed
                THEN /\ nconn' = nconn + 1
                     /\ g' = [g EXCEPT !.conn = nconn + 1, !.mu = p]
                     /\ wire' = {x \in wire : InUse(x.conn)}
                     /\ inbox' = {x \in inbox : InUse(x.conn)}
                     /\ hs' = hs
                     /\ proc' = [proc EXCEPT ![p] =
                            [rec EXCEPT !.ctid = tid, !.buf = ConnectRequest(tid),
                                        !.retries = 0, !.writes = 0, !.timeouts = 0,
                                        !.prev = NoPrev, !.pc = "connectWrite"]]
                ELSE /\ nconn' = nconn
                     /\ g' = Unlock([g EXCEPT !.conn = 0])
                     /\ wire' = {x \in wire : InUse(x.conn)}
                     /\ inbox' = {x \in inbox : InUse(x.conn)}
                     /\ hs' = [hs EXCEPT !.last = "failed"]
                     /\ proc' = [proc EXCEPT ![p] = Return(rec, "DialError")]
           ELSE /\ nconn' = nconn
                /\ g' = Unlock(g)
                /\ wire' = wire
                /\ inbox' = inbox
                /\ hs' = hs
                /\ proc' = [proc EXCEPT ![p] =
                       AfterConnect(rec, g.conn, g.connectionID, tid2)]
    /\ UNCHANGED << now, ncalls >>

\* connect(): retries++ and g.conn.Write(buf); out is what Write returns
connectWrite(p, out) ==
    /\ proc[p].pc = "connectWrite"
    /\ LET rec == [proc[p] EXCEPT !.retries = @ + 1, !.writes = @ + 1]
       IN  CASE out = "err" ->
                 /\ proc' = [proc EXCEPT ![p] = Return(rec, "WriteError")]
                 /\ g' = Unlock(g)
                 /\ hs' = [hs EXCEPT !.last = "failed"]
                 /\ wire' = wire
             [] out = "short" ->
                 /\ proc' = [proc EXCEPT ![p] = Return(rec, "ErrRequest")]
                 /\ g' = Unlock(g)
                 /\ hs' = [hs EXCEPT !.last = "failed"]
                 /\ wire' = wire
             [] out = "ok" ->
                 /\ proc' = [proc EXCEPT ![p] = [rec EXCEPT !.pc = "connectRead"]]
                 /\ g' = g
                 /\ hs' = hs
                 /\ wire' = wire \cup {[conn |-> g.conn, data |-> rec.buf, from |-> p]}
    /\ UNCHANGED << inbox, now, nconn, ncalls >>

\* connect(): g.conn.Read(buf) times out
connectTimeout(p) ==
    /\ proc[p].pc = "connectRead"
    /\ ~Waiting(g.conn)
    /\ IF GiveUp(proc[p].retries, g.retries)
       THEN /\ proc' = [proc EXCEPT ![p] = Return(proc[p], "ErrRetryLimit")]
            /\ g' = Unlock(g)
            /\ hs' = [hs EXCEPT !.last = "failed"]
       ELSE /\ proc' = [proc EXCEPT ![p].pc = "connectWrite",
                                    ![p].timeouts = @ + 1]
            /\ g' = g
            /\ hs' = hs
    /\ UNCHANGED << wire, inbox, now, nconn, ncalls >>

\* connect(): g.conn.Read(buf) fails with an error that is no timeout
connectReadErr(p) ==
    /\ proc[p].pc = "connectRead"
    /\ ~Waiting(g.conn)
    /\ proc' = [proc EXCEPT ![p] = Return(proc[p], "ReadError")]
    /\ g' = Unlock(g)
    /\ hs' = [hs EXCEPT !.last = "failed"]
    /\ UNCHANGED << wire, inbox, now, nconn, ncalls >>

\* connect(): g.conn.Read(buf) reads datagram d; then the checks, the new
\* session, g.Unlock() and Scrape up to its retry loop
connectRead(p, d, tid2) ==
    /\ proc[p].pc = "connectRead"
    /\ d \in inbox
    /\ d.conn = g.conn
    /\ inbox' = inbox \ {d}
    /\ LET rd == ReadInto(proc[p].buf, d.data)
           e == CheckConnect(rd.n, rd.buf)
       IN  IF e # "nil"
           THEN /\ proc' = [proc EXCEPT ![p] = Return(proc[p], e)]
                /\ g' = Unlock(g)
                /\ hs' = [hs EXCEPT !.last = "failed"]
           ELSE /\ g' = Unlock([g EXCEPT !.connectionID = Uint64(rd.buf, 8),
                                         !.session = now])
                /\ hs' = [last |-> "ok", conn |-> g.conn]
                /\ proc' = [proc EXCEPT ![p] =
                       AfterConnect(proc[p], g.conn, Uint64(rd.buf, 8), tid2)]
    /\ UNCHANGED << wire, now, nconn, ncalls >>

\* Scrape(): retries++ and conn.Write(buf); out is what Write returns
scrapeWrite(p, out) ==
    /\ proc[p].pc = "scrapeWrite"
    /\ LET rec == [proc[p] EXCEPT !.retries = @ + 1, !.writes = @ + 1]
       IN  CASE out = "err" ->
                 /\ proc' = [proc EXCEPT ![p] = Return(rec, "WriteError")]
                 /\ wire' = wire
             [] out = "short" ->
                 /\ proc' = [proc EXCEPT ![p] = Return(rec, "ErrRequest")]
                 /\ wire' = wire
             [] out = "ok" ->
                 /\ proc' = [proc EXCEPT ![p] = [rec EXCEPT !.pc = "scrapeRead"]]
                 /\ wire' = wire \cup {[conn |-> rec.conn, data |-> rec.buf, from |-> p]}
    /\ UNCHANGED << g, inbox, now, nconn, ncalls, hs >>

\* Scrape(): conn.Read(response) times out
scrapeTimeout(p) ==
    /\ proc[p].pc = "scrapeRead"
    /\ ~Waiting(proc[p].conn)
    /\ proc' = [proc EXCEPT ![p] =
                   IF GiveUp(proc[p].retries, g.retries)
                   THEN Return(proc[p], "ErrRetryLimit")
                   ELSE [proc[p] EXCEPT !.pc = "scrapeWrite", !.timeouts = @ + 1]]
    /\ UNCHANGED << g, wire, inbox, now, nconn, ncalls, hs >>

\* Scrape(): conn.Read(response) fails with an error that is no timeout
scrapeReadErr(p) ==
    /\ proc[p].pc = "scrapeRead"
    /\ ~Waiting(proc[p].conn)
    /\ proc' = [proc EXCEPT ![p] = Return(proc[p], "ReadError")]
    /\ UNCHANGED << g, wire, inbox, now, nconn, ncalls, hs >>

\* Scrape(): conn.Read(response) reads datagram d, the answer to a request
\* written on the same transport by this caller or by another; then the
\* checks and the results
scrapeRead(p, d) ==
    /\ proc[p].pc = "scrapeRead"
    /\ d \in inbox
    /\ d.conn = proc[p].conn
    /\ inbox' = inbox \ {d}
    /\ LET N == Len(proc[p].infohash)
           rd == ReadInto(Zeros(8 + (12 * N)), d.data)
           e == CheckScrape(proc[p].tid, N, rd.n, rd.buf)
       IN  proc' = [proc EXCEPT ![p] =
                       IF e # "nil"
                       THEN Return(proc[p], e)
                       ELSE [Ended(proc[p]) EXCEPT
                                !.err = "nil", !.rnil = FALSE,
                                !.r = ScrapeResult(proc[p].infohash, rd.buf)]]
    /\ UNCHANGED << g, wire, now, nconn, ncalls, hs >>

\* SetRetryLimit(retries).  It writes g.retries without the mutex and both
\* retry loops read it, so a program free of data races calls it while no
\* Scrape is running; so do the callers here.
SetRetryLimit(retries) ==
    /\ \A p \in Procs : proc[p].pc = "idle"
    /\ g' = [g EXCEPT !.retries = retries]
    /\ UNCHANGED << proc, wire, inbox, now, nconn, ncalls, hs >>

\* The tracker's answer to request req arrives at the transport the request
\* was written on.  An answer that arrives while nobody reads is read by the
\* next Read on that transport, so answers are let arrive while a caller
\* reads, one at a time.
Tracker(req, env) ==
    /\ req \in wire
    /\ ~Waiting(req.conn)
    /\ \E p \in Procs :
          \/ proc[p].pc = "connectRead" /\ g.conn = req.conn
          \/ proc[p].pc = "scrapeRead" /\ proc[p].conn = req.conn
    /\ \E reply \in TrackerReplies(req.data, env) :
          inbox' = inbox \cup {[conn |-> req.conn, data |-> reply, from |-> req.from]}
    /\ UNCHANGED << g, proc, wire, now, nconn, ncalls, hs >>

\* dt times 30 seconds pass.  The clock is read by connect() only, at its
\* staleness check and when it installs a session; time is let pass
\* between calls, and a call takes less than the 30 seconds the clock
\* counts in.
Tick(dt) ==
    /\ now + dt <= MaxTime
    /\ \A p \in Procs : proc[p].pc = "idle"
    /\ now' = now + dt
    /\ UNCHANGED << g, proc, wire, inbox, nconn, ncalls, hs >>

(***************************************************************************)
(* The inputs.                                                             *)
(***************************************************************************)
TIDs == {7, 16909060}           \* transaction IDs
CTIDs == {7}                    \* what rand.Int31() returns in connect
ConnIDs == {<<0, 9>>, <<16909060, 84281096>>}
RetryLimits == (0 - 1)..MaxRetryLimit
\* the limits set while two callers run: one attempt; the default is 3
RetryLimitsLive == {0 - 1, 0}

WriteOutcomes == {"ok", "err", "short"}

\* an infohash of n characters
Hex(a, n) == [i \in 1..n |-> HexDigits[((i * a) % 16) + 1]]
Valid1 == Hex(3, 40)
Valid2 == Hex(5, 40)
Short38 == Hex(7, 38)
Long42 == Hex(7, 42)
Odd39 == Hex(9, 39)
NonHex == [Valid1 EXCEPT ![17] = "z"]

\* environments: what rand.Int31() returns in Scrape, and what the tracker
\* answers with
Env == [rand |-> TIDs, tids |-> TIDs, cids |-> ConnIDs,
        cacts |-> {actionConnect, actionError}, sacts |-> Actions,
        triples |-> {<<10, 50, 2>>}]
EnvData == [rand |-> {16909060}, tids |-> TIDs, cids |-> {<<16909060, 84281096>>},
            cacts |-> {actionConnect}, sacts |-> {actionScrap},
            triples |-> {<<10, 50, 2>>, <<16909060, 0, 2147483647>>}]
EnvConc == [rand |-> TIDs, tids |-> TIDs, cids |-> {<<16909060, 84281096>>},
            cacts |-> {actionConnect, actionError},
            sacts |-> {actionScrap, actionError}, triples |-> {<<10, 50, 2>>}]

EnvLive == [rand |-> {7}, tids |-> {7}, cids |-> {<<16909060, 84281096>>},
            cacts |-> {actionConnect, actionError},
            sacts |-> {actionScrap}, triples |-> {<<10, 50, 2>>}]

\* lists of infohashes
Alternate(n, a, b) == [i \in 1..n |-> IF i % 2 = 1 THEN a ELSE b]
Lists == {<<Valid1>>, <<NonHex>>, Alternate(MaxInfohash + 1, Valid1, NonHex)}
ListsLive == {<<Valid1>>}

ListsData ==
    { <<>>, <<Valid1>>, <<Valid1, Valid2>>,
      <<Short38>>, <<Odd39>>, <<NonHex>>,
      <<Short38, Long42>>, <<Odd39, Odd39>>, <<Valid1, NonHex>>,
      Alternate(MaxInfohash, Valid1, Valid2),
      Alternate(MaxInfohash + 1, Valid1, Valid2),
      Alternate(MaxInfohash + 1, NonHex, Short38) }

\* a step of a caller of P, who make at most calls calls, or of the tracker
Step(P, L, env, calls) ==
    \/ \E p \in P, infohash \in L : ncalls < calls /\ Scrape(p, infohash)
    \/ \E p \in P, tid \in CTIDs, tid2 \in env.rand, dialed \in BOOLEAN :
          connect(p, tid, tid2, dialed)
    \/ \E p \in P, out \in WriteOutcomes : connectWrite(p, out)
    \/ \E p \in P : connectTimeout(p)
    \/ \E p \in P : connectReadErr(p)
    \/ \E p \in P, d \in inbox, tid2 \in env.rand : connectRead(p, d, tid2)
    \/ \E p \in P, out \in WriteOutcomes : scrapeWrite(p, out)
    \/ \E p \in P : scrapeTimeout(p)
    \/ \E p \in P : scrapeReadErr(p)
    \/ \E p \in P, d \in inbox : scrapeRead(p, d)
    \/ \E req \in wire : Tracker(req, env)

(***************************************************************************)
(* The specifications.                                                     *)
(*   Spec      one caller calls Scrape again and again, sets the retry     *)
(*             limit between calls, and time passes                        *)
(*   SpecData  one caller calls Scrape with lists of infohashes of all     *)
(*             shapes, at once or after more than a minute, and the        *)
(*             tracker fills its records with many values                  *)
(*   SpecConc  two callers call Scrape concurrently within 30 seconds      *)
(*   SpecLive  two callers call Scrape concurrently and set the retry      *)
(*             limit between calls; every write and every read returns     *)
(*             within its deadline and the lock admits every waiter        *)
(***************************************************************************)
Next ==
    \/ Step({1}, Lists, Env, MaxCalls)
    \/ \E retries \in RetryLimits : SetRetryLimit(retries)
    \/ ncalls < MaxCalls /\ Tick(1)

Spec == Init /\ [][Next]_vars

NextData ==
    \/ Step({1}, ListsData, EnvData, MaxCallsData)
    \/ ncalls < MaxCallsData /\ Tick(Minute + 1)

SpecData == Init /\ [][NextData]_vars

NextConc == Step(Procs, Lists, EnvConc, MaxCallsConc)

SpecConc == Init /\ [][NextConc]_vars

\* caller p asks for the lock of connect()
Admitted(p) ==
    \E tid \in CTIDs, tid2 \in EnvLive.rand, dialed \in BOOLEAN :
       connect(p, tid, tid2, dialed)

\* caller p goes on inside a retry loop: a write returns, a read returns
\* a datagram, an error or, at its deadline, a timeout
Runs(p) ==
    \/ \E out \in WriteOutcomes : connectWrite(p, out)
    \/ connectTimeout(p)
    \/ connectReadErr(p)
    \/ \E d \in inbox, tid2 \in EnvLive.rand : connectRead(p, d, tid2)
    \/ \E out \in WriteOutcomes : scrapeWrite(p, out)
    \/ scrapeTimeout(p)
    \/ scrapeReadErr(p)
    \/ \E d \in inbox : scrapeRead(p, d)

NextLive ==
    \/ Step(Procs, ListsLive, EnvLive, MaxCallsLive)
    \/ \E retries \in RetryLimitsLive : SetRetryLimit(retries)

\* SetWriteDeadline and SetReadDeadline before every Write and Read make
\* each of them return, so a caller inside a loop goes on (weak fairness);
\* sync.Mutex hands the lock to a waiter that has waited long, so a caller
\* that finds the lock free again and again gets it (strong fairness).
\* The tracker and the program that calls are under no obligation.
SpecLive ==
    /\ Init
    /\ [][NextLive]_vars
    /\ \A p \in Procs : WF_vars(Runs(p)) /\ SF_vars(Admitted(p))

(***************************************************************************)
(* The properties.  A step of a caller is told by what it changes: a read  *)
(* that gets a datagram takes it out of inbox, a read that times out or    *)
(* fails leaves inbox alone, a call of Scrape counts in ncalls.            *)
(***************************************************************************)
\* caller p reads datagram d in Scrape's retry loop
ScrapeReads(p, d) ==
    /\ proc[p].pc = "scrapeRead"
    /\ d \in inbox
    /\ d.conn = proc[p].conn
    /\ inbox' = inbox \ {d}
    /\ proc'[p] # proc[p]

\* the i-th 12-byte record of a scrape reply, after its 8-byte header
ReplyRecord(data, i) == SubSeq(data, 8 + 12 * (i - 1) + 1, 8 + 12 * i)

\* the 12 bytes a result's three numbers are written as
ResultBytes(res) ==
    PutUint32(res.Seeders) \o PutUint32(res.Completed) \o PutUint32(res.Leechers)

\* C1: a call of Scrape with N infohashes that ends without error returns
\* exactly N results, N being at most 74, and for every i result i carries
\* infohash i of the call and the seeders, completed and leechers of the
\* i-th 12-byte record of the datagram that was read, whatever the tracker
\* put into the records.
C1_ResultsFollowInput ==
    [][\A p \in Procs, d \in inbox :
          ScrapeReads(p, d) /\ proc'[p].pc = "idle" /\ proc'[p].err = "nil" =>
             LET infohash == proc[p].infohash
                 r == proc'[p].r
             IN  /\ ~proc'[p].rnil
                 /\ Len(infohash) <= MaxInfohash
                 /\ Len(r) = Len(infohash)
                 /\ \A i \in 1..Len(infohash) :
                       /\ r[i].Infohash = infohash[i]
                       /\ ResultBytes(r[i]) = ReplyRecord(d.data, i)]_vars

\* C1, witness: a call with 74 infohashes has returned 74 results, the
\* first two from records the tracker filled differently
C1_Witness ==
    /\ proc[1].pc = "idle" /\ proc[1].err = "nil" /\ ~proc[1].rnil
    /\ Len(proc[1].infohash) = MaxInfohash
    /\ Len(proc[1].r) = MaxInfohash
    /\ proc[1].r[1] = [Infohash |-> Valid1, Seeders |-> 10,
                       Completed |-> 50, Leechers |-> 2]
    /\ proc[1].r[2] = [Infohash |-> Valid2, Seeders |-> 16909060,
                       Completed |-> 0, Leechers |-> 2147483647]

\* caller p calls Scrape
Calls(p) == proc[p].pc = "idle" /\ ncalls' = ncalls + 1 /\ proc'[p] # proc[p]

\* C2: a call of Scrape with more than 74 infohashes ends at once with
\* ErrTooManyInfohash and without results, and neither dials nor writes nor
\* reads nor touches the client, whatever session the client has; a call
\* with 74 infohashes or fewer goes on to connect(), and no call with 74 or
\* fewer ever has ErrTooManyInfohash for its error.
C2_TooManyWithoutIO ==
    /\ [](\A p \in Procs :
            proc[p].err = "ErrTooManyInfohash" => Len(proc[p].infohash) > MaxInfohash)
    /\ [][\A p \in Procs :
            Calls(p) =>
               IF Len(proc'[p].infohash) > MaxInfohash
               THEN /\ proc'[p].pc = "idle"
                    /\ proc'[p].err = "ErrTooManyInfohash"
                    /\ proc'[p].rnil
                    /\ UNCHANGED << g, wire, inbox, nconn, hs >>
               ELSE /\ proc'[p].pc = "connect"
                    /\ proc'[p].err = "nil"]_vars

\* C2, witness: a call with 75 infohashes was refused on a client whose
\* session is more than a minute old
C2_Witness ==
    /\ proc[1].pc = "idle" /\ proc[1].err = "ErrTooManyInfohash"
    /\ Len(proc[1].infohash) = MaxInfohash + 1
    /\ hs.last = "ok" /\ Stale(g.session)

\* whether h is 40 hexadecimal digits, which decode to 20 bytes
Decodes20(h) ==
    LET d == HexDecode(h) IN d.err = "nil" /\ Len(d.dst) = 20

\* whether some entry of the list does not decode to exactly 20 bytes
Malformed(infohash) == \E i \in 1..Len(infohash) : ~Decodes20(infohash[i])

\* C3: a call of Scrape with an infohash that does not decode to exactly
\* 20 bytes fails before any network I/O: the first thing it does after
\* entering is to return an error, no transport has been dialed for it and
\* nothing has been written, also when the session is absent or stale.
C3_MalformedFailsBeforeIO ==
    [][\A p \in Procs :
          /\ proc[p].pc # "idle"
          /\ Malformed(proc[p].infohash)
          /\ proc'[p] # proc[p]
          => /\ proc'[p].pc = "idle"
             /\ proc'[p].err \notin {"nil", "DialError"}
             /\ nconn' = nconn
             /\ wire' = wire]_vars

\* C4: every entry is validated by itself: a call with 1 to 74 infohashes
\* one of which is not 40 hexadecimal digits never writes a scrape request
\* and never returns results, also when the lengths of the entries sum to
\* 40 times their number.
C4_EveryEntryValidated ==
    \A p \in Procs :
       /\ Len(proc[p].infohash) \in 1..MaxInfohash
       /\ Malformed(proc[p].infohash)
       => /\ proc[p].pc \notin {"scrapeWrite", "scrapeRead"}
          /\ proc[p].pc = "idle" => proc[p].err # "nil"

\* caller p gets past g.Lock() in connect()
Connects(p) == proc[p].pc = "connect" /\ proc'[p] # proc[p]

\* caller p writes its scrape request
ScrapeWrites(p) == proc[p].pc = "scrapeWrite" /\ proc'[p].pc = "scrapeRead"

\* C5: on a new client the first call that reaches connect() dials and
\* starts the handshake; the second call of a client whose first call ended
\* without error less than 60 seconds before does no handshake I/O (no
\* dial, nothing written, the client untouched) and goes on to the scrape
\* exchange with the transport and the connection ID of the first call,
\* which are what its scrape request is written on and with (or returns
\* the decoding error of a malformed list, still without I/O); and an
\* exchange none of whose reads timed out has written once, so that without
\* timeouts the first call makes two round trips and the second one.
C5_SessionReuse ==
    /\ [](\A p \in Procs :
            proc[p].pc \in {"connectRead", "scrapeRead"} =>
               proc[p].writes = proc[p].timeouts + 1)
    /\ [][\A p \in Procs :
            /\ Connects(p) /\ hs.last = "none" =>
                  \/ /\ proc'[p].pc = "connectWrite"
                     /\ nconn' = nconn + 1
                     /\ proc'[p].writes = 0
                  \/ proc'[p].pc = "idle" /\ proc'[p].err = "DialError"
            /\ /\ Connects(p)
               /\ ncalls = 2
               /\ proc[p].prev.ok
               /\ Since(proc[p].prev.at) < Minute
               => /\ \/ /\ proc'[p].pc = "scrapeWrite"
                        /\ proc'[p].writes = 0
                        /\ proc'[p].conn = proc[p].prev.conn
                        /\ proc'[p].connectionid = proc[p].prev.connectionid
                     \/ /\ proc'[p].pc = "idle"
                        /\ proc'[p].err \in {"hex.InvalidByteError", "hex.ErrLength"}
                  /\ UNCHANGED << g, wire, inbox, nconn >>
            /\ ScrapeWrites(p) =>
                  \E x \in wire' :
                     /\ wire' = wire \cup {x}
                     /\ x.conn = proc[p].conn
                     /\ Uint64(x.data, 0) = proc[p].connectionid
                     /\ Uint32(x.data, 8) = actionScrap]_vars

\* C5, witness: the second call, made 30 seconds after the first, has
\* returned results; one transport was dialed, and what was written is
\* the connect request and the scrape requests of the two calls
C5_Witness ==
    /\ ncalls = 2 /\ nconn = 1
    /\ proc[1].pc = "idle" /\ proc[1].err = "nil" /\ ~proc[1].rnil
    /\ proc[1].at = 1 /\ g.session = 0
    /\ Cardinality({x \in wire : Uint32(x.data, 8) = actionConnect}) = 1
    /\ Cardinality({x \in wire : Uint32(x.data, 8) = actionScrap}) = 2

\* C6: when the datagram read in Scrape's retry loop is long enough for the
\* call and carries another transaction ID than the request, the call ends
\* with ErrInvalidTransactionID and without results and writes nothing
\* more, whatever the action of the datagram.
C6_TransactionMismatch ==
    [][\A p \in Procs, d \in inbox :
          /\ ScrapeReads(p, d)
          /\ Len(d.data) >= 8 + 12 * Len(proc[p].infohash)
          /\ Uint32(d.data, 4) # proc[p].tid
          => /\ proc'[p].pc = "idle"
             /\ proc'[p].err = "ErrInvalidTransactionID"
             /\ proc'[p].rnil /\ proc'[p].r = << >>
             /\ wire' = wire]_vars

\* C6, witness: a call has ended with ErrInvalidTransactionID, which only
\* the check of a scrape reply gives
C6_Witness ==
    /\ proc[1].pc = "idle" /\ proc[1].err = "ErrInvalidTransactionID"
    /\ proc[1].rnil
    /\ hs.last = "ok"

\* a read of caller p times out
TimesOut(p) ==
    /\ proc[p].pc \in {"connectRead", "scrapeRead"}
    /\ proc'[p] # proc[p]
    /\ inbox' = inbox
    /\ proc'[p].err # "ReadError"

\* what a timed out read leads to in a loop that is to write attempts times
RetriesUpTo(p, attempts) ==
    IF proc[p].writes = attempts
    THEN /\ proc'[p].pc = "idle"
         /\ proc'[p].err = "ErrRetryLimit"
         /\ proc'[p].rnil
    ELSE /\ proc[p].writes < attempts
         /\ proc'[p].pc = IF proc[p].pc = "connectRead"
                          THEN "connectWrite" ELSE "scrapeWrite"

ConnectReads(p, d) ==
    /\ proc[p].pc = "connectRead"
    /\ d \in inbox
    /\ d.conn = g.conn
    /\ inbox' = inbox \ {d}
    /\ proc'[p] # proc[p]

\* C8: with two callers in Scrape at the same time on one client, a
\* datagram the tracker sent in answer to the request of one caller is
\* never read by the other: every read consumes an answer to a request of
\* the caller that reads.
C8_RepliesReachTheirCall ==
    [][\A p \in Procs, d \in inbox :
          ScrapeReads(p, d) \/ ConnectReads(p, d) => d.from = p]_vars

\* caller p enters Scrape's retry loop, from connect()
EntersScrapeLoop(p) ==
    proc[p].pc \in {"connect", "connectRead"} /\ proc'[p].pc = "scrapeWrite"

\* C9: a failed handshake is not remembered: while the latest handshake of
\* the client is one that failed (the dial, a write, a short write, the
\* retry limit, a short reply or a wrong action), the session and the
\* connection ID stay what they were before it, and the next call that
\* reaches connect() dials a new transport and starts a handshake with a
\* new connect request, or fails at the dial; and a call enters the scrape
\* exchange only with the transport of the latest successful handshake and
\* the connection ID that handshake installed, which is the one its
\* request carries.
C9_HandshakeFailureNotCached ==
    [][/\ hs'.last = "failed" =>
             /\ g'.session = g.session
             /\ g'.connectionID = g.connectionID
       /\ \A p \in Procs :
             /\ Connects(p) /\ hs.last = "failed" =>
                   \/ /\ proc'[p].pc = "connectWrite"
                      /\ nconn' = nconn + 1
                      /\ g'.conn = nconn' /\ g'.conn # g.conn
                      /\ proc'[p].buf = ConnectRequest(proc'[p].ctid)
                      /\ proc'[p].writes = 0
                   \/ proc'[p].pc = "idle" /\ proc'[p].err = "DialError"
             /\ EntersScrapeLoop(p) =>
                   /\ hs'.last = "ok"
                   /\ proc'[p].conn = hs'.conn
                   /\ proc'[p].connectionid = g'.connectionID
                   /\ Uint64(proc'[p].buf, 0) = g'.connectionID]_vars

\* C9, witness: a handshake succeeded, a later one from the stale session
\* failed, and the next call has dialed a third transport and waits for
\* the answer to its connect request
C9_Witness ==
    /\ hs = [last |-> "failed", conn |-> 1]
    /\ g.session = 0 /\ Stale(g.session)
    /\ nconn = 3 /\ g.conn = 3
    /\ proc[1].pc = "connectRead"
    /\ \E x \in wire : x.conn = 3 /\ Uint32(x.data, 8) = actionConnect

\* C10: when the datagram read in Scrape's retry loop is long enough for
\* the call and carries the transaction ID of the request, the call ends
\* with ErrRemote if its action is error (3), with ErrInvalidAction if its
\* action is neither error nor scrape (2), in both cases without results,
\* and with results if its action is scrape; and no read gives results
\* from a datagram whose action is not scrape.
C10_ActionOfReply ==
    [][\A p \in Procs, d \in inbox :
          /\ /\ ScrapeReads(p, d)
             /\ Len(d.data) >= 8 + 12 * Len(proc[p].infohash)
             /\ Uint32(d.data, 4) = proc[p].tid
             => /\ proc'[p].pc = "idle"
                /\ CASE Uint32(d.data, 0) = actionError ->
                           proc'[p].err = "ErrRemote" /\ proc'[p].rnil
                     [] Uint32(d.data, 0) = actionScrap ->
                           proc'[p].err = "nil" /\ ~proc'[p].rnil
                     [] OTHER ->
                           proc'[p].err = "ErrInvalidAction" /\ proc'[p].rnil
          /\ ScrapeReads(p, d) /\ ~proc'[p].rnil =>
                Len(d.data) >= 8 /\ Uint32(d.data, 0) = actionScrap]_vars

\* C10, witness: a call has ended with ErrRemote, which only the check of
\* the action of a scrape reply gives
C10_Witness ==
    /\ proc[1].pc = "idle" /\ proc[1].err = "ErrRemote" /\ proc[1].rnil
    /\ hs.last = "ok"

\* C11: what a call of Scrape has returned is either a nil error with a
\* result for every infohash of the call, each with its infohash and its
\* three numbers, or an error with no results at all; never results
\* for some of the infohashes only, never results with an error.
C11_ResultsOrError ==
    \A p \in Procs :
       proc[p].called /\ proc[p].pc = "idle" =>
          IF proc[p].err = "nil"
          THEN /\ ~proc[p].rnil
               /\ Len(proc[p].r) = Len(proc[p].infohash)
               /\ \A i \in 1..Len(proc[p].infohash) :
                     /\ DOMAIN proc[p].r[i] =
                           {"Infohash", "Seeders", "Completed", "Leechers"}
                     /\ proc[p].r[i].Infohash = proc[p].infohash[i]
          ELSE proc[p].rnil /\ proc[p].r = << >>

\* C11, witness: after a handshake that succeeded a call has returned the
\* error of the hex decoding, and no results
C11_Witness ==
    /\ proc[1].called /\ proc[1].pc = "idle"
    /\ proc[1].err = "hex.InvalidByteError"
    /\ proc[1].rnil /\ proc[1].r = << >>
    /\ hs.last = "ok"

\* C12: the retry limit is the maximum number of attempts: with a limit
\* n >= 1 in force no exchange, handshake or scrape, has made more than n
\* write attempts.
C12_AtMostNAttempts ==
    \A p \in Procs :
       /\ g.retries >= 1
       /\ proc[p].pc \in {"connectWrite", "connectRead", "scrapeWrite", "scrapeRead"}
       => proc[p].writes <= g.retries

\* C13: when the datagram read in the retry loop of connect() is 16 bytes
\* long, has the action connect and carries another transaction ID than
\* the connect request, the handshake fails with ErrInvalidTransactionID
\* and neither the connection ID nor the session time is taken from it.
C13_ConnectReplyIDChecked ==
    [][\A p \in Procs, d \in inbox :
          /\ ConnectReads(p, d)
          /\ Len(d.data) = 16
          /\ Uint32(d.data, 0) = actionConnect
          /\ Uint32(d.data, 4) # proc[p].ctid
          => /\ proc'[p].pc = "idle"
             /\ proc'[p].err = "ErrInvalidTransactionID"
             /\ g'.connectionID = g.connectionID
             /\ g'.session = g.session]_vars

\* caller p, past g.Lock(), dials for a new handshake
Renews(p) ==
    \/ proc'[p].pc = "connectWrite" /\ nconn' = nconn + 1
    \/ proc'[p].pc = "idle" /\ proc'[p].err = "DialError"

\* caller p, past g.Lock(), has connect() return the session that is there
Reuses(p) ==
    /\ UNCHANGED << g, wire, inbox, nconn >>
    /\ \/ /\ proc'[p].pc = "scrapeWrite"
          /\ proc'[p].conn = g.conn
          /\ proc'[p].connectionid = g.connectionID
       \/ /\ proc'[p].pc = "idle"
          /\ proc'[p].err \in {"hex.InvalidByteError", "hex.ErrLength"}

ReadOf(p) ==
    IF proc[p].pc \in {"connectWrite", "connectRead"}
    THEN "connectRead" ELSE "scrapeRead"

WriteOf(p) ==
    IF proc[p].pc \in {"connectWrite", "connectRead"}
    THEN "connectWrite" ELSE "scrapeWrite"

\* C15: in both retry loops only a read that timed out is followed by
\* another write.  A write goes on to the read or, when it fails or is
\* short, ends the call with WriteError or ErrRequest; a loop goes back
\* from its read to its write only by a timeout, with nothing read; a read
\* that fails ends the call with its error; a reply read that is shorter
\* than the call needs ends it with ErrResponse; and none of these writes
\* anything more.
C15_OnlyTimeoutsRetried ==
    [][\A p \in Procs :
          /\ proc[p].pc \in {"connectWrite", "scrapeWrite"} /\ proc'[p] # proc[p] =>
                \/ /\ proc'[p].pc = ReadOf(p)
                   /\ proc'[p].writes = proc[p].writes + 1
                \/ /\ proc'[p].pc = "idle"
                   /\ proc'[p].err \in {"WriteError", "ErrRequest"}
                   /\ proc'[p].rnil
                   /\ wire' = wire
          /\ proc[p].pc \in {"connectRead", "scrapeRead"} /\ proc'[p] # proc[p] =>
                /\ wire' = wire
                /\ \/ /\ proc'[p].pc = WriteOf(p)
                      /\ inbox' = inbox
                      /\ proc'[p].timeouts = proc[p].timeouts + 1
                      /\ proc'[p].writes = proc[p].writes
                   \/ proc'[p].pc = "idle"
                   \/ /\ proc[p].pc = "connectRead"
                      /\ proc'[p].pc = "scrapeWrite"
                      /\ proc'[p].writes = 0
          /\ \A d \in inbox :
                \/ ConnectReads(p, d) /\ Len(d.data) < 16
                \/ ScrapeReads(p, d) /\ Len(d.data) < 8 + 12 * Len(proc[p].infohash)
                => /\ proc'[p].pc = "idle"
                   /\ proc'[p].err = "ErrResponse"
                   /\ proc'[p].rnil
          /\ proc'[p].err = "ReadError" /\ proc'[p] # proc[p] =>
                /\ proc[p].pc \in {"connectRead", "scrapeRead"}
                /\ proc'[p].pc = "idle"
                /\ inbox' = inbox]_vars

\* C15, witness: the first call of a client has ended with ErrResponse in
\* its scrape exchange, and one scrape request was written
C15_Witness ==
    /\ ncalls = 1
    /\ proc[1].pc = "idle" /\ proc[1].err = "ErrResponse"
    /\ hs.last = "ok"
    /\ Cardinality({x \in wire : Uint32(x.data, 8) = actionScrap}) = 1

\* the callers that are inside a connect handshake
Handshaking == {p \in Procs : proc[p].pc \in {"connectWrite", "connectRead"}}

\* C16: handshakes are serialized: at most one caller of a client is
\* inside a connect handshake at any time, and it holds the lock; and a
\* call that arrived while the client had no session or a stale one, and
\* gets the lock after another call's handshake has succeeded, performs
\* no handshake of its own (dials no transport, writes nothing) and goes
\* on with the transport and the connection ID that handshake installed.
C16_HandshakeSerialized ==
    [][/\ Cardinality(Handshaking) <= 1
       /\ \A p \in Handshaking : g.mu = p
       /\ \A q \in Procs :
             Connects(q) /\ proc[q].stale /\ hs.last = "ok" /\ g.session = now =>
                /\ Reuses(q)
                /\ proc'[q].pc = "scrapeWrite" =>
                      /\ proc'[q].conn = hs.conn
                      /\ proc'[q].connectionid = g.connectionID]_vars

\* C16, witness: two calls that both arrived on a client without a
\* session are in the scrape exchange on the one transport that was
\* dialed, both with the connection ID of the one handshake
C16_Witness ==
    /\ \A p \in Procs :
          /\ proc[p].pc \in {"scrapeWrite", "scrapeRead"}
          /\ proc[p].stale
          /\ proc[p].conn = hs.conn
          /\ proc[p].connectionid = g.connectionID
    /\ hs.last = "ok"
    /\ nconn = 1

\* every call that is under way returns
EveryCallReturns == \A p \in Procs : proc[p].pc # "idle" ~> proc[p].pc = "idle"

\* C17, as amended: when every write and read returns within its deadline
\* and the lock admits its waiters, every Scrape call that is under way
\* eventually returns, whatever the tracker does and with two callers at
\* once; a retry loop makes at most retryLimit + 1 attempts when the
\* limit is zero or more, and one attempt when the limit is negative.
C17_EveryCallReturns ==
    /\ EveryCallReturns
    /\ [](\A p \in Procs : proc[p].writes <= IF g.retries < 0 THEN 1 ELSE g.retries + 1)

\* C17, as stated: every call returns and no retry loop makes more than
\* retryLimit + 1 attempts, whatever the retry limit is.
C17_AtMostLimitPlusOne ==
    /\ EveryCallReturns
    /\ [](\A p \in Procs : proc[p].writes <= g.retries + 1)

\* C17, witness: one caller has returned ErrRetryLimit from a handshake
\* the tracker never answered, and the other caller, which waited for the
\* lock meanwhile, is in its own handshake
C17_Witness ==
    /\ proc[1].pc = "idle" /\ proc[1].err = "ErrRetryLimit"
    /\ proc[2].pc = "connectRead" /\ proc[2].timeouts >= 1
    /\ g.retries >= 1
    /\ hs.last = "failed"

\* datagram d answers a request of caller q and bears its transaction ID
BelongsTo(d, q) ==
    /\ d.from = q
    /\ \E req \in wire :
          /\ req.from = q /\ req.conn = d.conn
          /\ Len(d.data) >= 8
          /\ Uint32(req.data, 12) = Uint32(d.data, 4)

\* C18: with two concurrent calls on one transport, a call that returns
\* results has decoded them from the one datagram it read, and that
\* datagram bears the call's own transaction ID; a datagram that belongs
\* to the other call, whose transaction ID is another one, makes the call
\* that reads it return an error and no results.
C18_OwnReplyOnly ==
    [][\A p \in Procs, d \in inbox :
          ScrapeReads(p, d) =>
             /\ proc'[p].err = "nil" =>
                   /\ Uint32(d.data, 4) = proc[p].tid
                   /\ Len(proc'[p].r) = Len(proc[p].infohash)
                   /\ \A i \in 1..Len(proc'[p].r) :
                         ResultBytes(proc'[p].r[i]) = ReplyRecord(d.data, i)
             /\ \A q \in Procs \ {p} :
                   BelongsTo(d, q) /\ Uint32(d.data, 4) # proc[p].tid =>
                      /\ proc'[p].pc = "idle"
                      /\ proc'[p].err \in {"ErrResponse", "ErrInvalidTransactionID"}
                      /\ proc'[p].rnil /\ proc'[p].r = << >>]_vars

\* C18, witness: of two first calls that share the transport and have
\* different transaction IDs, one has returned results while the other
\* waits for its reply
C18_Witness ==
    /\ ncalls = 2
    /\ proc[1].pc = "idle" /\ proc[1].err = "nil" /\ Len(proc[1].r) = 1
    /\ proc[2].pc = "scrapeRead" /\ proc[2].conn = g.conn
    /\ proc[2].tid = 16909060
    /\ \E req \in wire :
          /\ req.from = 1 /\ req.conn = g.conn
          /\ Len(req.data) > 16 /\ Uint32(req.data, 12) = 7

\* C19: the transport and the connection ID connect() returns belong
\* together: the connection ID of the client and the transport of its
\* latest successful handshake change only when a connect reply is
\* accepted, and then to the ID that reply carries and the transport it
\* was read from; failed handshakes, which replace the stored transport
\* or set it to nil, change neither; and a call enters the scrape
\* exchange with exactly that transport, which is the stored one, and
\* that connection ID.
C19_TransportAndIDTogether ==
    [][/\ hs'.conn # hs.conn \/ g'.connectionID # g.connectionID =>
             \E p \in Procs, d \in inbox :
                /\ ConnectReads(p, d)
                /\ hs'.last = "ok" /\ hs'.conn = d.conn
                /\ g'.conn = d.conn
                /\ g'.connectionID = Uint64(d.data, 8)
       /\ \A p \in Procs :
             EntersScrapeLoop(p) =>
                /\ proc'[p].conn # 0
                /\ proc'[p].conn = hs'.conn /\ proc'[p].conn = g'.conn
                /\ proc'[p].connectionid = g'.connectionID]_vars

\* C19, witness: three transports were dialed, a handshake on one of the
\* first two failed, the handshake on the third succeeded and the call
\* goes on with the third transport and its connection ID
C19_Witness ==
    /\ nconn = 3
    /\ hs = [last |-> "ok", conn |-> 3]
    /\ g.conn = 3 /\ g.session = now
    /\ proc[1].pc = "scrapeWrite"
    /\ proc[1].conn = 3
    /\ proc[1].connectionid = g.connectionID

\* the transports that are open: every transport connect() has dialed,
\* since neither connect() nor Scrape nor any other function closes one
Open == 1..nconn

\* C20: the client holds at most one open transport at any time: the
\* transport stored before a renewal is closed when the renewal dials a
\* new one, so renewals and failed handshakes do not add open transports.
C20_AtMostOneOpenTransport == Cardinality(Open) <= 1

=============================================================================
